---- MODULE Spec2Model ----
(***************************************************************************)
(* Verification model of the routing pipeline's engine client              *)
(* (api/ch_query.py: CHQueryEngine, with its output parser), spatial index *)
(* (api/data_loader.py: SpatialIndex), dataset registry                    *)
(* (api/data_loader.py: DatasetRegistry) and the /nearest-edge and /route  *)
(* handlers and output parser of the server (api/server.py).               *)
(*                                                                         *)
(* Encodings.  An Optional[T] is a sequence of length 0 (None) or 1.       *)
(* A float is a natural number, or Inf for float('inf').  The engine's     *)
(* text output is a sequence of lines; a line is a record of the markers   *)
(* it contains and of the text after its first colon.  An edge geometry    *)
(* is a record of its distances to the one query point.                    *)
(*                                                                         *)
(* Specifications.  Spec: one sequential caller of the engine client.      *)
(* SpecParser: _parse_output alone.  SpecRace: callers racing in the       *)
(* capability probe.  SpecRegistry: callers of get_spatial_index.          *)
(* SpecSeq: a sequential series of registry calls.  SpecIndex and          *)
(* SpecRadius: a SpatialIndex loaded row by row, then queried for the      *)
(* nearest edges or the edges within a radius.  SpecMulti: one query_multi *)
(* call on a fresh engine.  SpecServer: requests to the two handlers.      *)
(***************************************************************************)
EXTENDS Integers, Sequences, FiniteSets, TLC

\* ---------------------------------------------------------------- bounds
MaxCand == 2        \* candidates per side of a query_multi call
MaxPairs == 4       \* source x target pairs of a query_multi call
MaxDist == 1        \* largest finite approach distance / engine cost
MaxProbes == 2      \* direct calls of the capability probe
MaxThreads == 2     \* concurrent callers
TgtBase == 10       \* target edge ids are TgtBase+1, TgtBase+2, ...
MaxLines == 3       \* lines of a text handed to _parse_output
MaxToks == 3        \* tokens of a path line
MaxRows == 3        \* rows of an edges file that reach the index

\* float('inf'), the initial best_distance
Inf == -1

None == <<>>
Some(x) == <<x>>

VARIABLES
    supports,       \* CHQueryEngine._supports_multi_query: Optional[bool]
    cmds,           \* every subprocess.run command issued, in order
    pc,             \* position of the sequential caller
    op,             \* the API call in progress or last finished
    args,           \* arguments of the query_multi call
    i, j,           \* loop indices of _query_multi_fallback
    best_distance, best_path, best_runtime,
    hist,           \* results of self.query per pair, in call order
    ret,            \* Optional value returned by the last API call
    lastOut,        \* Optional outcome of the last batch or single engine run
    probeRets,      \* set of booleans the probe has returned so far
    nProbeCalls,    \* number of direct probe calls
    helpBoth,       \* Optional: the sequential caller's --help run exited and
                    \* printed both option markers
    payload,        \* the text handed to a direct _parse_output call
    rendered,       \* Optional: the report that text was rendered from
    edges, idx,     \* SpatialIndex.edges and the entries of SpatialIndex.idx
    ipc,            \* position of the SpatialIndex user
    fargs,          \* arguments of the spatial query
    nearby_ids,     \* what idx.nearest or idx.intersection returned to it
    found,          \* Optional list returned by the spatial query
    tpc, tout, tret,            \* racing probe callers: position, outcome seen, returned
    datasets, spatial_indices,  \* DatasetRegistry fields
    nextIndex, builds,          \* SpatialIndex instances constructed
    rpc, rname, rbuilt, rgot,   \* registry callers: position, name, built index, returned
    rcall, rfile,               \* registry callers: method called, edges file read
    request, response           \* server: the last request and its response

engineVars == <<supports, cmds, pc, op, args, i, j, best_distance, best_path,
                best_runtime, hist, ret, lastOut, probeRets, nProbeCalls,
                helpBoth, payload, rendered>>
raceVars == <<tpc, tout, tret>>
registryVars == <<datasets, spatial_indices, nextIndex, builds, rpc, rname, rbuilt, rgot,
                  rcall, rfile>>
indexVars == <<edges, idx, ipc, fargs, nearby_ids, found>>
serverVars == <<request, response>>
vars == <<engineVars, raceVars, registryVars, indexVars, serverVars>>

\* ------------------------------------------------------------ float model
IsFinite(x) == x # Inf
\* float addition: inf absorbs
Plus(a, b) == IF a = Inf \/ b = Inf THEN Inf ELSE a + b
\* float comparison a < b
Less(a, b) == a # Inf /\ (b = Inf \/ a < b)

\* ------------------------------------------------------------ QueryResult
QueryResult(success, distance, runtime_ms, path, error) ==
    [success |-> success, distance |-> distance, runtime_ms |-> runtime_ms,
     path |-> path, error |-> error]

Failure(msg) == QueryResult(FALSE, None, None, None, Some(msg))

\* ----------------------------------------------------- engine text output
\* Texts that follow a colon: a decimal number, "inf", or something float()
\* rejects.
NumTxt(n) == [t |-> "num", v |-> n]
InfTxt == [t |-> "inf", v |-> 0]
BadTxt == [t |-> "bad", v |-> 0]

\* Path tokens between "->", after trimming: the digits of n; the ellipsis
\* "..."; a word; digits a and b around an ellipsis ("a...b"); a character
\* such as a superscript two, for which isdigit() holds and int() raises.
Tok(n) == [t |-> "num", v |-> n, w |-> 0]
EllipsisTok == [t |-> "ellipsis", v |-> 0, w |-> 0]
JunkTok == [t |-> "junk", v |-> 0, w |-> 0]
DottedTok(a, b) == [t |-> "dotted", v |-> a, w |-> b]
SuperTok == [t |-> "super", v |-> 0, w |-> 0]
EmptyTok == [t |-> "empty", v |-> 0, w |-> 0]

\* A line of output: the markers it contains, the text between its first and
\* second colon read as a number (val) and as arrow-separated tokens (toks).
\* shape is the marker that goes with "Distance": "single" for "including
\* destination edge", "batch" for "total including", "none" for neither.
Line(nopath, distance, shape, runtime, expanded, val, toks) ==
    [nopath |-> nopath, distance |-> distance, shape |-> shape,
     runtime |-> runtime, expanded |-> expanded, val |-> val, toks |-> toks]

NoPathLine == Line(TRUE, FALSE, "none", FALSE, FALSE, BadTxt, <<>>)
\* "Distance (including destination edge): <txt>"
DistLine(txt) == Line(FALSE, TRUE, "single", FALSE, FALSE, txt, <<>>)
\* "Distance (total including approach distances): <txt>"
TotalDistLine(txt) == Line(FALSE, TRUE, "batch", FALSE, FALSE, txt, <<>>)
\* "Runtime: <txt> ms"
RuntimeLine(txt) == Line(FALSE, FALSE, "none", TRUE, FALSE, txt, <<>>)
\* "Expanded path: <toks>" or "Expanded base edge path: <toks>"
PathLine(toks) == Line(FALSE, FALSE, "none", FALSE, TRUE, BadTxt, toks)
\* a line with none of the markers, such as "Shortcut path length: 5 edges"
OtherLine == Line(FALSE, FALSE, "none", FALSE, FALSE, BadTxt, <<>>)

\* Faulty variant: "No path found" is looked for after the other markers.
BranchNoPathLast(line) ==
    IF line.distance /\ line.shape \in {"single", "batch"} THEN "dist"
    ELSE IF line.runtime THEN "runtime"
    ELSE IF line.expanded THEN "path"
    ELSE IF line.nopath THEN "nopath"
    ELSE "other"

\* Faulty variant: only the single-pair distance marker is known.
BranchSingleOnly(line) ==
    IF line.nopath THEN "nopath"
    ELSE IF line.distance /\ line.shape = "single" THEN "dist"
    ELSE IF line.runtime THEN "runtime"
    ELSE IF line.expanded THEN "path"
    ELSE "other"

\* The branch of the if / elif chain a line takes.
Branch(line) ==
    IF line.nopath THEN "nopath"
    ELSE IF line.distance /\ line.shape \in {"single", "batch"} THEN "dist"
    ELSE IF line.runtime THEN "runtime"
    ELSE IF line.expanded THEN "path"
    ELSE "other"

\* An exception in flight, as opposed to a returned value.
Raise(e) == [exception |-> e]
IsException(r) == "exception" \in DOMAIN r

\* float(text)
FloatOf(txt) == IF txt.t = "inf" THEN Inf ELSE txt.v

\* path_str.replace('...', '') seen token by token
RemoveEllipsis(tok) ==
    IF tok.t = "ellipsis" THEN EmptyTok
    ELSE IF tok.t = "dotted" THEN Tok(tok.v * 10 + tok.w)
    ELSE tok

\* p and p.isdigit()
IsDigit(tok) == tok.t \in {"num", "super"}

\* The path parts that pass the filter, after the replace.
Kept(toks) ==
    SelectSeq([k \in 1..Len(toks) |-> RemoveEllipsis(toks[k])], IsDigit)

\* int(p) raises for some part that passed the filter
IntRaises(toks) ==
    LET kept == Kept(toks) IN \E k \in 1..Len(kept) : kept[k].t = "super"

\* [int(p) for p in path_parts if p and p.isdigit()]
PathOf(toks) ==
    LET kept == Kept(toks) IN [k \in 1..Len(kept) |-> kept[k].v]

\* Faulty variant: a payload with a path and no distance is accepted.
FinishPathOnly(distance, runtime_ms, path) ==
    IF path = None
    THEN Failure("Failed to parse query output")
    ELSE QueryResult(TRUE, distance, runtime_ms, path, None)

\* The tests after the scan: both a path and a distance are needed.
Finish(distance, runtime_ms, path) ==
    IF path = None \/ distance = None
    THEN Failure("Failed to parse query output")
    ELSE QueryResult(TRUE, distance, runtime_ms, path, None)

\* The for loop over the lines, from line k on.
RECURSIVE ScanLines(_, _, _, _, _)
ScanLines(lines, k, distance, runtime_ms, path) ==
    IF k > Len(lines) THEN Finish(distance, runtime_ms, path)
    ELSE LET line == lines[k]
             branch == Branch(line) IN
        IF branch = "nopath" THEN Failure("No path found")
        ELSE IF branch = "dist" THEN
            IF line.val.t = "bad" THEN Raise("ValueError")
            ELSE ScanLines(lines, k + 1, Some(FloatOf(line.val)), runtime_ms, path)
        ELSE IF branch = "runtime" THEN
            IF line.val.t = "bad" THEN Raise("ValueError")
            ELSE ScanLines(lines, k + 1, distance, Some(FloatOf(line.val)), path)
        ELSE IF branch = "path" THEN
            IF IntRaises(line.toks) THEN Raise("ValueError")
            ELSE ScanLines(lines, k + 1, distance, runtime_ms, Some(PathOf(line.toks)))
        ELSE ScanLines(lines, k + 1, distance, runtime_ms, path)

\* Faulty variant: without the try / except around the scan.
ParseOutputNoExcept(output) == ScanLines(output, 1, None, None, None)

\* _parse_output: the scan inside try / except Exception
parse_output(output) ==
    LET r == ScanLines(output, 1, None, None, None) IN
    IF IsException(r) THEN Failure("Parse error") ELSE r

\* server.parse_cpp_output: (path, distance, runtime_ms)
CppTuple(path, distance, runtime_ms) ==
    [path |-> path, distance |-> distance, runtime_ms |-> runtime_ms]

\* The for loop of parse_cpp_output over the lines, from line k on, and the
\* test after it: a path is needed.
RECURSIVE ScanCppLines(_, _, _, _, _)
ScanCppLines(lines, k, distance, runtime_ms, path) ==
    IF k > Len(lines)
    THEN (IF path = None THEN CppTuple(None, None, None)
          ELSE CppTuple(path, distance, runtime_ms))
    ELSE LET line == lines[k]
             branch == Branch(line) IN
        IF branch = "nopath" THEN CppTuple(None, None, None)
        ELSE IF branch = "dist" THEN
            IF line.val.t = "bad" THEN Raise("ValueError")
            ELSE ScanCppLines(lines, k + 1, Some(FloatOf(line.val)), runtime_ms, path)
        ELSE IF branch = "runtime" THEN
            IF line.val.t = "bad" THEN Raise("ValueError")
            ELSE ScanCppLines(lines, k + 1, distance, Some(FloatOf(line.val)), path)
        ELSE IF branch = "path" THEN
            IF IntRaises(line.toks) THEN Raise("ValueError")
            ELSE ScanCppLines(lines, k + 1, distance, runtime_ms, Some(PathOf(line.toks)))
        ELSE ScanCppLines(lines, k + 1, distance, runtime_ms, path)

\* parse_cpp_output: the scan inside try / except Exception
parse_cpp_output(output) ==
    LET r == ScanCppLines(output, 1, None, None, None) IN
    IF IsException(r) THEN CppTuple(None, None, None) ELSE r

\* ------------------------------------------------------ engine invocations
Cmd(form, sources, source_dists, targets, target_dists, optimized) ==
    [form |-> form, sources |-> sources, source_dists |-> source_dists,
     targets |-> targets, target_dists |-> target_dists, optimized |-> optimized]

HelpCmd == Cmd("help", <<>>, <<>>, <<>>, <<>>, FALSE)
SingleCmd(source, target) == Cmd("single", <<source>>, <<>>, <<target>>, <<>>, FALSE)
\* Faulty variant: the batch command always carries --optimized.
BatchCmdAlwaysOptimized(se, sd, te, td, optimized) == Cmd("batch", se, sd, te, td, TRUE)
BatchCmd(se, sd, te, td, optimized) == Cmd("batch", se, sd, te, td, optimized)

Count(form) == Cardinality({k \in 1..Len(cmds) : cmds[k].form = form})

\* What subprocess.run can do: the process exits (returncode, stdout), the
\* timeout expires, or the launch raises.
Exit(code, stdout) == [kind |-> "exit", returncode |-> code, stdout |-> stdout,
                       sources |-> FALSE, optimized |-> FALSE]
TimeoutExpired == [kind |-> "timeout", returncode |-> 0, stdout |-> <<>>,
                   sources |-> FALSE, optimized |-> FALSE]
LaunchError == [kind |-> "raise", returncode |-> 0, stdout |-> <<>>,
                sources |-> FALSE, optimized |-> FALSE]
\* --help output: which option markers stdout + stderr contain
HelpExit(hasSources, hasOptimized) ==
    [kind |-> "exit", returncode |-> 0, stdout |-> <<>>,
     sources |-> hasSources, optimized |-> hasOptimized]

HelpOutcomes ==
    {HelpExit(a, b) : a \in BOOLEAN, b \in BOOLEAN} \cup {TimeoutExpired, LaunchError}

DistVals == (0..MaxDist) \cup {Inf}
DistTxt(d) == IF d = Inf THEN InfTxt ELSE NumTxt(d)

\* A well-formed single-pair payload: distance, runtime and path lines.
GoodPayload(d, path) ==
    <<DistLine(DistTxt(d)), RuntimeLine(NumTxt(1)), PathLine(path)>>

\* A well-formed batch payload.
BatchPayload(d, path) ==
    <<TotalDistLine(DistTxt(d)), RuntimeLine(NumTxt(1)), PathLine(path)>>

\* The path as the engine prints it: "source -> ... -> target"
EnginePath(source, target) == <<Tok(source), EllipsisTok, Tok(target)>>

\* The engine's report for the pair (source, target) at cost d.  The runtime
\* it reports differs from source to source, and a report of cost 0 carries
\* no runtime line.
PairPayload(source, target, d) ==
    IF d = 0
    THEN <<DistLine(DistTxt(d)), PathLine(EnginePath(source, target))>>
    ELSE <<DistLine(DistTxt(d)), RuntimeLine(NumTxt(source)),
           PathLine(EnginePath(source, target))>>

\* Outcomes of a single-pair run for (source, target).
PairOutcomes(source, target) ==
    {TimeoutExpired, LaunchError, Exit(1, <<>>), Exit(0, <<NoPathLine>>)}
    \cup {Exit(0, PairPayload(source, target, d)) : d \in DistVals}

\* Further outcomes of one stand-alone query: payloads the parser rejects or
\* accepts in other shapes.
QueryOutcomes(source, target) ==
    PairOutcomes(source, target)
    \cup {Exit(0, <<OtherLine>>),
          Exit(0, <<DistLine(BadTxt), PathLine(<<Tok(source)>>)>>),
          Exit(0, <<DistLine(NumTxt(0))>>),
          Exit(0, <<PathLine(<<Tok(source), Tok(target)>>),
                     DistLine(NumTxt(MaxDist))>>),
          Exit(0, <<DistLine(NumTxt(0)), PathLine(<<EllipsisTok>>)>>),
          Exit(0, <<DistLine(NumTxt(0)), PathLine(<<SuperTok>>)>>),
          Exit(1, GoodPayload(0, EnginePath(source, target)))}

\* Outcomes of a batch run: the engine adds the approach distances itself.
BatchOutcomes(se, te) ==
    {TimeoutExpired, LaunchError, Exit(1, <<>>), Exit(0, <<NoPathLine>>)}
    \cup {Exit(0, BatchPayload(0, <<EllipsisTok>>))}
    \cup {Exit(0, BatchPayload(d, EnginePath(s, t))) :
            d \in DistVals, s \in {se[k] : k \in 1..Len(se)},
            t \in {te[k] : k \in 1..Len(te)}}

\* ------------------------------------------------------- capability probe
\* the --help run exited and its output holds "--sources" and "--optimized"
BothMarkers(out) == out.kind = "exit" /\ out.sources /\ out.optimized

\* Faulty variant: one of the two markers is enough.
ProbeValueEither(out) ==
    IF out.kind = "exit" THEN out.sources \/ out.optimized ELSE FALSE

\* The flag a --help run leads to: both markers in the output of a run that
\* exited, False when the run raised.
ProbeValue(out) ==
    IF out.kind = "exit" THEN out.sources /\ out.optimized ELSE FALSE

\* Faulty variant: the except branch returns False without caching it.
ProbeNoCacheOnError(flag, out) ==
    IF flag # None
    THEN [flag |-> flag, result |-> flag[1], ran |-> FALSE]
    ELSE [flag |-> IF out.kind = "exit" THEN Some(ProbeValue(out)) ELSE None,
          result |-> ProbeValue(out), ran |-> TRUE]

\* check_multi_query_support run to completion by one caller: the new cached
\* flag, the value returned, and whether --help was run.
check_multi_query_support(flag, out) ==
    IF flag # None
    THEN [flag |-> flag, result |-> flag[1], ran |-> FALSE]
    ELSE [flag |-> Some(ProbeValue(out)), result |-> ProbeValue(out), ran |-> TRUE]

\* ------------------------------------------------------------------ query
\* Faulty variant: the output is parsed before the exit status is looked at.
QueryParseFirst(out) ==
    IF out.kind = "timeout" THEN Failure("Query timeout")
    ELSE IF out.kind = "raise" THEN Failure("Query error")
    ELSE IF parse_output(out.stdout).success THEN parse_output(out.stdout)
    ELSE IF out.returncode # 0 THEN Failure("No path found or query failed")
    ELSE parse_output(out.stdout)

\* The value query() returns for an outcome of its one subprocess.run.
query(out) ==
    IF out.kind = "timeout" THEN Failure("Query timeout")
    ELSE IF out.kind = "raise" THEN Failure("Query error")
    ELSE IF out.returncode # 0 THEN Failure("No path found or query failed")
    ELSE LET parsed == parse_output(out.stdout) IN
         IF IsException(parsed) THEN Failure("Query error") ELSE parsed

\* Faulty variant: only the source lists are compared.
LengthErrorSourcesOnly(se, te, sd, td) ==
    IF Len(se) # Len(sd)
    THEN Some("source_edges and source_distances must have same length")
    ELSE None

\* The length checks at the head of query_multi: None when they pass.
LengthError(se, te, sd, td) ==
    IF Len(se) # Len(sd)
    THEN Some("source_edges and source_distances must have same length")
    ELSE IF Len(te) # Len(td)
    THEN Some("target_edges and target_distances must have same length")
    ELSE None

\* Faulty variant: the dispatch test is inverted.
UseFallbackInverted(probeResult) == probeResult

\* if not self._check_multi_query_support(): fall back
UseFallback(probeResult) == ~probeResult

\* The value query_multi returns for an outcome of its batch run.
BatchResult(out) ==
    IF out.kind = "timeout" THEN Failure("Query timeout")
    ELSE IF out.kind = "raise" THEN Failure("Query error")
    ELSE IF out.returncode # 0
         THEN Failure("No path found between source and target sets")
    ELSE LET parsed == parse_output(out.stdout) IN
         IF IsException(parsed) THEN Failure("Query error") ELSE parsed

\* --------------------------------------------------------- fallback search
\* Faulty variant: the target approach distance is left out.
TotalDistanceNoTarget(sd, d, td) == Plus(sd, d)

\* source_distances[i] + result.distance + target_distances[j]
TotalDistance(sd, d, td) == Plus(Plus(sd, d), td)

\* Faulty variant: a total equal to the best so far replaces it.
UpdateBestLeq(best, result, sd, td) ==
    IF result.success /\ result.distance # None
    THEN LET total_distance == TotalDistance(sd, result.distance[1], td) IN
         IF ~Less(best.distance, total_distance)
         THEN [distance |-> total_distance, path |-> result.path,
               runtime |-> result.runtime_ms]
         ELSE best
    ELSE best

\* Faulty variant: the runtime of the first pair found is kept.
UpdateBestKeepsRuntime(best, result, sd, td) ==
    IF result.success /\ result.distance # None
    THEN LET total_distance == TotalDistance(sd, result.distance[1], td) IN
         IF Less(total_distance, best.distance)
         THEN [distance |-> total_distance, path |-> result.path,
               runtime |-> IF best.path = None THEN result.runtime_ms
                           ELSE best.runtime]
         ELSE best
    ELSE best

\* Body of the double loop for one pair: the new (distance, path, runtime).
UpdateBest(best, result, sd, td) ==
    IF result.success /\ result.distance # None
    THEN LET total_distance == TotalDistance(sd, result.distance[1], td) IN
         IF Less(total_distance, best.distance)
         THEN [distance |-> total_distance, path |-> result.path,
               runtime |-> result.runtime_ms]
         ELSE best
    ELSE best

\* Faulty variant: the inner loop is left after its first target.
AdvanceBreak(ii, jj, m) == <<ii + 1, 1>>

\* The loop indices after pair (ii, jj) of the two nested for loops.
Advance(ii, jj, m) == IF jj < m THEN <<ii, jj + 1>> ELSE <<ii + 1, 1>>

\* The value returned after the loops.
FallbackResult(best) ==
    IF best.path = None
    THEN Failure("No path found between source and target sets")
    ELSE QueryResult(TRUE, Some(best.distance), best.runtime, best.path, None)

\* ----------------------------------------------------------------- inputs
SrcEdges(n) == [k \in 1..n |-> k]
TgtEdges(m) == [k \in 1..m |-> TgtBase + k]
DistLists(n) == [1..n -> 0..MaxDist]
Lens == 0..MaxCand

Best == [distance |-> best_distance, path |-> best_path, runtime |-> best_runtime]

\* ----------------------------------------------- sequential engine client
EngineInit ==
    /\ supports = None
    /\ cmds = <<>>
    /\ pc = "idle"
    /\ op = "none"
    /\ args = [se |-> <<>>, te |-> <<>>, sd |-> <<>>, td |-> <<>>]
    /\ i = 1 /\ j = 1
    /\ best_distance = Inf /\ best_path = None /\ best_runtime = Some(0)
    /\ hist = <<>>
    /\ ret = None
    /\ lastOut = None
    /\ probeRets = {}
    /\ nProbeCalls = 0
    /\ helpBoth = None
    /\ payload = <<>>
    /\ rendered = None

RaceIdle ==
    /\ tpc = [t \in 1..MaxThreads |-> "idle"]
    /\ tout = [t \in 1..MaxThreads |-> None]
    /\ tret = [t \in 1..MaxThreads |-> None]

Names == {"burnaby", "somerset"}
Paths == {"edges_a.csv", "edges_b.csv"}
Threads == 1..MaxThreads

RegistryIdle ==
    /\ datasets = <<>>
    /\ spatial_indices = <<>>
    /\ nextIndex = 1
    /\ builds = [n \in Names |-> 0]
    /\ rpc = [t \in Threads |-> "idle"]
    /\ rname = [t \in Threads |-> None]
    /\ rbuilt = [t \in Threads |-> None]
    /\ rgot = [t \in Threads |-> None]
    /\ rcall = [t \in Threads |-> "none"]
    /\ rfile = [t \in Threads |-> None]

\* A direct call of the probe.
CheckMultiQuerySupport ==
    /\ pc = "idle"
    /\ nProbeCalls < MaxProbes
    /\ \E out \in HelpOutcomes :
         LET p == check_multi_query_support(supports, out) IN
         /\ supports' = p.flag
         /\ cmds' = IF p.ran THEN Append(cmds, HelpCmd) ELSE cmds
         /\ probeRets' = probeRets \cup {p.result}
         /\ helpBoth' = IF p.ran THEN Some(BothMarkers(out)) ELSE helpBoth
    /\ nProbeCalls' = nProbeCalls + 1
    /\ op' = "probe"
    /\ UNCHANGED <<pc, args, i, j, best_distance, best_path, best_runtime,
                   hist, ret, lastOut, payload, rendered>>
    /\ UNCHANGED <<raceVars, registryVars, indexVars, serverVars>>

\* query(source, target)
Query ==
    /\ pc = "idle"
    /\ \E source \in 1..MaxCand, target \in (TgtBase + 1)..(TgtBase + MaxCand) :
       \E out \in QueryOutcomes(source, target) :
         /\ cmds' = Append(cmds, SingleCmd(source, target))
         /\ lastOut' = Some(out)
         /\ ret' = Some(query(out))
    /\ pc' = "done"
    /\ op' = "query"
    /\ UNCHANGED <<supports, args, i, j, best_distance, best_path, best_runtime,
                   hist, probeRets, nProbeCalls, helpBoth, payload, rendered>>
    /\ UNCHANGED <<raceVars, registryVars, indexVars, serverVars>>

\* query_multi up to its return, or up to the entry of the fallback loops,
\* as the values it leaves, given what the engine answers to the probe and
\* to the batch command.
QueryMultiHead(se, te, sd, td, optimized, helpOut, batchOut) ==
    LET cur == [ret |-> ret, pc |-> pc, supports |-> supports, cmds |-> cmds,
                i |-> i, j |-> j, best_distance |-> best_distance,
                best_path |-> best_path, best_runtime |-> best_runtime,
                hist |-> hist, lastOut |-> lastOut, probeRets |-> probeRets,
                helpBoth |-> helpBoth]
    IN
    IF LengthError(se, te, sd, td) # None THEN
        [cur EXCEPT !.ret = Some(Failure(LengthError(se, te, sd, td)[1])),
                    !.pc = "done"]
    ELSE
        LET p == check_multi_query_support(supports, helpOut)
            probed == IF p.ran THEN Append(cmds, HelpCmd) ELSE cmds
            base == [cur EXCEPT !.supports = p.flag,
                                !.probeRets = probeRets \cup {p.result},
                                !.helpBoth = IF p.ran THEN Some(BothMarkers(helpOut))
                                             ELSE helpBoth]
        IN IF UseFallback(p.result) THEN
              [base EXCEPT !.cmds = probed, !.pc = "fallback", !.i = 1, !.j = 1,
                           !.best_distance = Inf, !.best_path = None,
                           !.best_runtime = Some(0), !.hist = <<>>]
           ELSE
              [base EXCEPT !.cmds = Append(probed, BatchCmd(se, sd, te, td, optimized)),
                           !.lastOut = Some(batchOut),
                           !.ret = Some(BatchResult(batchOut)),
                           !.pc = "done"]

\* The engine's answers a query_multi call can meet.
HelpAnswers == IF supports = None THEN HelpOutcomes ELSE {TimeoutExpired}

\* The batch command runs only past the length tests and a probe that
\* answers true.
BatchAnswers(se, te, sd, td, helpOut) ==
    IF \/ LengthError(se, te, sd, td) # None
       \/ UseFallback(check_multi_query_support(supports, helpOut).result)
    THEN {TimeoutExpired}
    ELSE BatchOutcomes(se, te)

QueryMultiBody(se, te, sd, td, optimized) ==
    \E helpOut \in HelpAnswers :
    \E batchOut \in BatchAnswers(se, te, sd, td, helpOut) :
       LET h == QueryMultiHead(se, te, sd, td, optimized, helpOut, batchOut) IN
       /\ ret' = h.ret
       /\ pc' = h.pc
       /\ supports' = h.supports
       /\ cmds' = h.cmds
       /\ i' = h.i /\ j' = h.j
       /\ best_distance' = h.best_distance
       /\ best_path' = h.best_path
       /\ best_runtime' = h.best_runtime
       /\ hist' = h.hist
       /\ lastOut' = h.lastOut
       /\ probeRets' = h.probeRets
       /\ helpBoth' = h.helpBoth

\* A query_multi call.  The count of direct probe calls restarts with it.
QueryMulti ==
    /\ pc = "idle"
    /\ \E n \in Lens, m \in Lens, ln \in Lens, lm \in Lens :
       /\ n * m <= MaxPairs
       /\ \E sd \in DistLists(ln), td \in DistLists(lm), optimized \in BOOLEAN :
            /\ args' = [se |-> SrcEdges(n), te |-> TgtEdges(m), sd |-> sd, td |-> td]
            /\ QueryMultiBody(SrcEdges(n), TgtEdges(m), sd, td, optimized)
    /\ op' = "query_multi"
    /\ nProbeCalls' = 0
    /\ UNCHANGED <<payload, rendered>>
    /\ UNCHANGED <<raceVars, registryVars, indexVars, serverVars>>

\* One iteration of the inner loop of _query_multi_fallback.
FallbackPair ==
    /\ pc = "fallback"
    /\ i <= Len(args.se) /\ j <= Len(args.te)
    \* source_distances[i] and target_distances[j] exist (else IndexError)
    /\ i \in DOMAIN args.sd /\ j \in DOMAIN args.td
    /\ \E out \in PairOutcomes(args.se[i], args.te[j]) :
         LET result == query(out)
             b == UpdateBest(Best, result, args.sd[i], args.td[j]) IN
         /\ cmds' = Append(cmds, SingleCmd(args.se[i], args.te[j]))
         /\ hist' = Append(hist, [i |-> i, j |-> j, result |-> result])
         /\ best_distance' = b.distance
         /\ best_path' = b.path
         /\ best_runtime' = b.runtime
    /\ i' = Advance(i, j, Len(args.te))[1]
    /\ j' = Advance(i, j, Len(args.te))[2]
    /\ UNCHANGED <<supports, pc, op, args, ret, lastOut, probeRets, nProbeCalls,
                   helpBoth, payload, rendered>>
    /\ UNCHANGED <<raceVars, registryVars, indexVars, serverVars>>

\* The loops are over: select the best result.
FallbackReturn ==
    /\ pc = "fallback"
    /\ (i > Len(args.se) \/ Len(args.te) = 0)
    /\ ret' = Some(FallbackResult(Best))
    /\ pc' = "done"
    /\ UNCHANGED <<supports, cmds, op, args, i, j, best_distance, best_path,
                   best_runtime, hist, lastOut, probeRets, nProbeCalls,
                   helpBoth, payload, rendered>>
    /\ UNCHANGED <<raceVars, registryVars, indexVars, serverVars>>

\* ------------------------------------------------------------ parser inputs
\* all sequences over S of length 0..n
SeqsUpTo(S, n) == UNION {[1..k -> S] : k \in 0..n}
\* the orders of three lines
Orders == {f \in [1..3 -> 1..3] : \A a, b \in 1..3 : a # b => f[a] # f[b]}

\* Lines of every branch, with good and bad numbers, and lines that carry
\* more than one marker or "Distance" without its second marker.
LineAlphabet ==
    {NoPathLine, OtherLine,
     DistLine(NumTxt(1)), DistLine(BadTxt), TotalDistLine(NumTxt(0)),
     RuntimeLine(NumTxt(1)), RuntimeLine(BadTxt),
     PathLine(<<Tok(1), Tok(2)>>), PathLine(<<JunkTok>>), PathLine(<<SuperTok>>),
     Line(TRUE, TRUE, "single", FALSE, TRUE, NumTxt(1), <<Tok(1)>>),
     Line(FALSE, TRUE, "none", FALSE, FALSE, NumTxt(1), <<>>)}

TokAlphabet ==
    {Tok(1), Tok(2), EllipsisTok, JunkTok, DottedTok(1, 2), SuperTok, EmptyTok}

\* The engine's report of distance d, runtime r and path, in the single-pair
\* or the batch shape, its three lines in the given order.
Render(d, r, path, shape, order) ==
    LET three == <<IF shape = "batch" THEN TotalDistLine(DistTxt(d))
                                       ELSE DistLine(DistTxt(d)),
                   RuntimeLine(NumTxt(r)),
                   PathLine([k \in 1..Len(path) |-> Tok(path[k])])>> IN
    [k \in 1..3 |-> three[order[k]]]

\* the paths a report is rendered from
Routes == SeqsUpTo(1..MaxCand, MaxToks) \ {<<>>}

\* Texts of every kind, and a distance line followed by a path line of
\* every kind.
Payloads ==
    SeqsUpTo(LineAlphabet, MaxLines)
    \cup {<<DistLine(NumTxt(1)), PathLine(toks)>> : toks \in SeqsUpTo(TokAlphabet, MaxToks)}

\* A direct call of _parse_output on some text.
ParseOutput ==
    /\ pc = "idle" /\ op = "none"
    /\ \E p \in Payloads :
         /\ payload' = p
         /\ ret' = Some(parse_output(p))
    /\ rendered' = None
    /\ pc' = "done"
    /\ op' = "parse"
    /\ UNCHANGED <<supports, cmds, args, i, j, best_distance, best_path,
                   best_runtime, hist, lastOut, probeRets, nProbeCalls, helpBoth>>
    /\ UNCHANGED <<raceVars, registryVars, indexVars, serverVars>>

\* A direct call of _parse_output on the engine's report of a route.
ParseReport ==
    /\ pc = "idle" /\ op = "none"
    /\ \E d \in DistVals, r \in 0..MaxDist, path \in Routes,
          shape \in {"single", "batch"}, order \in Orders :
         /\ rendered' = Some([distance |-> d, runtime_ms |-> r, path |-> path])
         /\ payload' = Render(d, r, path, shape, order)
         /\ ret' = Some(parse_output(Render(d, r, path, shape, order)))
    /\ pc' = "done"
    /\ op' = "parse"
    /\ UNCHANGED <<supports, cmds, args, i, j, best_distance, best_path,
                   best_runtime, hist, lastOut, probeRets, nProbeCalls, helpBoth>>
    /\ UNCHANGED <<raceVars, registryVars, indexVars, serverVars>>

\* ------------------------------------------------------------ SpatialIndex
\* A dict is a function on its keys.
Put(d, k, v) == [x \in DOMAIN d \cup {k} |-> IF x = k THEN v ELSE d[x]]

\* An edge geometry is kept as what the one query point sees of it: box, the
\* distance to its bounding box (what the R-tree orders by), and dist, the
\* distance to the polyline itself (point.distance).
EdgeIds == {1, 2, 3}
Geoms == {[box |-> 0, dist |-> 0], [box |-> 0, dist |-> 2],
          [box |-> 1, dist |-> 1], [box |-> 1, dist |-> 2]}

IndexIdle ==
    /\ edges = <<>>
    /\ idx = <<>>
    /\ ipc = "loading"
    /\ fargs = [call |-> "none", max_results |-> 0, max_candidates |-> 0,
                radius_meters |-> 0]
    /\ nearby_ids = <<>>
    /\ found = None

\* A row of the edges file, by what the loop body does with it: "ok" parses,
\* "badid" fails in int(row['id']), "badwkt" fails in wkt.loads, "notline"
\* parses to a geometry that is no LineString.
Row(kind, edge_id, geom) == [kind |-> kind, id |-> edge_id, geom |-> geom]
GoodRows == {Row("ok", edge_id, geom) : edge_id \in EdgeIds, geom \in Geoms}
BadRows == {Row(kind, 1, [box |-> 0, dist |-> 0]) : kind \in {"badid", "badwkt", "notline"}}

\* The loop body of _load_edges: a row that parses is stored in self.edges
\* and inserted in self.idx; any other row is skipped.
LoadOneRow(ix, row) ==
    IF row.kind = "ok"
    THEN [edges |-> Put(ix.edges, row.id, row.geom),
          idx |-> Append(ix.idx, [id |-> row.id, box |-> row.geom.box])]
    ELSE ix

\* for idx_row, row in df.iterrows()
RECURSIVE LoadRows(_, _)
LoadRows(ix, rows) ==
    IF rows = <<>> THEN ix
    ELSE LoadRows(LoadOneRow(ix, Head(rows)), Tail(rows))

\* The edges file at a path: missing, or a table with columns and rows.
MissingFile == [kind |-> "missing", columns |-> {}, rows |-> <<>>]
Table(columns, rows) == [kind |-> "csv", columns |-> columns, rows |-> rows]
Files ==
    LET near == [box |-> 0, dist |-> 0]
        far == [box |-> 1, dist |-> 2]
        all == {"id", "geometry", "length", "highway"}
    IN {MissingFile,
        Table({"geometry", "length"}, <<Row("ok", 1, near)>>),
        Table({"id", "highway"}, <<Row("ok", 1, near)>>),
        Table(all, <<Row("badid", 1, near), Row("ok", 2, far),
                     Row("badwkt", 1, near), Row("notline", 1, near),
                     Row("ok", 1, near)>>)}

\* Faulty variant: a table without the id or geometry column gives an empty index.
LoadEdgesNoColumnTest(file) ==
    IF file.kind = "missing" THEN Raise("FileNotFoundError")
    ELSE IF ~({"id", "geometry"} \subseteq file.columns)
    THEN [edges |-> <<>>, idx |-> <<>>]
    ELSE LoadRows([edges |-> <<>>, idx |-> <<>>], file.rows)

\* SpatialIndex(edges_csv_path): __init__ and _load_edges on a whole file
load_edges(file) ==
    IF file.kind = "missing" THEN Raise("FileNotFoundError")
    ELSE IF ~({"id", "geometry"} \subseteq file.columns) THEN Raise("ValueError")
    ELSE LoadRows([edges |-> <<>>, idx |-> <<>>], file.rows)

\* One row of the edges file in _load_edges, read by a SpatialIndex under
\* construction.
LoadRow ==
    /\ ipc = "loading"
    /\ Len(idx) < MaxRows
    /\ \E row \in GoodRows \cup BadRows :
         LET ix == LoadOneRow([edges |-> edges, idx |-> idx], row) IN
         /\ edges' = ix.edges
         /\ idx' = ix.idx
    /\ UNCHANGED <<ipc, fargs, nearby_ids, found>>
    /\ UNCHANGED <<engineVars, raceVars, registryVars, serverVars>>

\* The last row is read: the SpatialIndex is constructed.
LoadEnd ==
    /\ ipc = "loading"
    /\ ipc' = "ready"
    /\ UNCHANGED <<edges, idx, fargs, nearby_ids, found>>
    /\ UNCHANGED <<engineVars, raceVars, registryVars, serverVars>>

\* idx.nearest(point.bounds, n): the ids of the n entries nearest by box,
\* with every entry as near as the n-th; entries equally near in any order.
Nearest(entries, n) ==
    LET m == Len(entries)
        ByBox == {f \in [1..m -> 1..m] :
                    /\ \A a, b \in 1..m : a # b => f[a] # f[b]
                    /\ \A a, b \in 1..m : a < b => entries[f[a]].box <= entries[f[b]].box}
        Cut(f) == IF m <= n THEN m
                  ELSE CHOOSE c \in n..m :
                         /\ entries[f[c]].box = entries[f[n]].box
                         /\ \A e \in (c + 1)..m : entries[f[e]].box # entries[f[n]].box
    IN {[k \in 1..Cut(f) |-> entries[f[k]].id] : f \in ByBox}

\* list.sort(key=lambda x: x[1]): stable, ascending by distance
RECURSIVE SortByDist(_)
SortByDist(s) ==
    IF s = <<>> THEN <<>>
    ELSE LET front == SortByDist(SubSeq(s, 1, Len(s) - 1))
             x == s[Len(s)]
             before == SelectSeq(front, LAMBDA y : y.dist <= x.dist)
             after == SelectSeq(front, LAMBDA y : y.dist > x.dist)
         IN before \o <<x>> \o after

\* s[:k] for k >= 0
Truncate(s, k) == SubSeq(s, 1, IF k < Len(s) THEN k ELSE Len(s))

\* (edge_id, dist) for the ids of the pool that are in self.edges
EdgeDistances(e, ids) ==
    LET known == SelectSeq(ids, LAMBDA x : x \in DOMAIN e) IN
    [k \in 1..Len(known) |-> [id |-> known[k], dist |-> e[known[k]].dist]]

\* Faulty variant: the pool is cut to max_results before it is sorted.
FindNearestCutFirst(e, ids, max_results) ==
    IF ids = <<>> THEN <<>>
    ELSE SortByDist(Truncate(EdgeDistances(e, ids), max_results))

\* find_nearest_edges after the index lookup
find_nearest_edges(e, ids, max_results) ==
    IF ids = <<>> THEN <<>>
    ELSE Truncate(SortByDist(EdgeDistances(e, ids)), max_results)

\* find_nearest_edges(lat, lon, max_results, max_candidates)
FindNearestEdges ==
    /\ ipc = "ready"
    /\ \E max_results \in 0..MaxRows, max_candidates \in 1..MaxRows :
       \E ids \in Nearest(idx, max_candidates) :
         /\ fargs' = [call |-> "nearest", max_results |-> max_results,
                      max_candidates |-> max_candidates, radius_meters |-> 0]
         /\ nearby_ids' = ids
         /\ found' = Some(find_nearest_edges(edges, ids, max_results))
    /\ ipc' = "done"
    /\ UNCHANGED <<edges, idx>>
    /\ UNCHANGED <<engineVars, raceVars, registryVars, serverVars>>

\* idx.intersection(search_box): the ids of the entries whose box reaches the
\* search box, in any order.  The search box is taken as the disc of radius r.
Intersection(entries, r) ==
    LET hits == {k \in 1..Len(entries) : entries[k].box <= r}
        n == Cardinality(hits)
        Orderings == {f \in [1..n -> hits] : \A a, b \in 1..n : a # b => f[a] # f[b]}
    IN {[k \in 1..n |-> entries[f[k]].id] : f \in Orderings}

\* Faulty variant: the distance is not compared with the radius.
WithinRadiusNoFilter(e, ids, radius_meters, max_results) ==
    IF ids = <<>> THEN <<>>
    ELSE Truncate(SortByDist(EdgeDistances(e, ids)), max_results)

\* find_edges_within_radius after the index lookup
find_edges_within_radius(e, ids, radius_meters, max_results) ==
    IF ids = <<>> THEN <<>>
    ELSE Truncate(SortByDist(SelectSeq(EdgeDistances(e, ids),
                                       LAMBDA x : x.dist <= radius_meters)),
                  max_results)

Radii == {0, 1, 2}

\* find_edges_within_radius(lat, lon, radius_meters, max_results)
FindEdgesWithinRadius ==
    /\ ipc = "ready"
    /\ \E radius_meters \in Radii, max_results \in 0..MaxRows :
       \E ids \in Intersection(idx, radius_meters) :
         /\ fargs' = [call |-> "radius", max_results |-> max_results,
                      max_candidates |-> 0, radius_meters |-> radius_meters]
         /\ nearby_ids' = ids
         /\ found' = Some(find_edges_within_radius(edges, ids, radius_meters,
                                                   max_results))
    /\ ipc' = "done"
    /\ UNCHANGED <<edges, idx>>
    /\ UNCHANGED <<engineVars, raceVars, registryVars, serverVars>>

\* ------------------------------------------------------------------ server
ServerIdle ==
    /\ request = None
    /\ response = None

\* raise HTTPException(status_code=..., detail=...)
HTTPException(status_code, detail) ==
    [exception |-> "HTTPException", status_code |-> status_code, detail |-> detail]

\* str(e), as a text in parts
StrOf(e) ==
    IF e.exception = "HTTPException"
    THEN <<"HTTPException", e.detail>>
    ELSE <<e.exception>>

\* What the client gets for what leaves a handler: the model it returns goes
\* out with status 200, an HTTPException with its own status and detail, any
\* other exception as a 500.
Respond(out) ==
    IF ~IsException(out)
    THEN [status_code |-> 200, detail |-> <<>>, body |-> Some(out)]
    ELSE IF out.exception = "HTTPException"
    THEN [status_code |-> out.status_code, detail |-> out.detail, body |-> None]
    ELSE [status_code |-> 500, detail |-> <<"Internal Server Error">>, body |-> None]

\* find_nearest_edge after the index lookup: the first of
\* find_nearest_edges(max_results=1), or None
find_nearest_edge(e, ids) ==
    LET nearest == find_nearest_edges(e, ids, 1) IN
    IF nearest = <<>> THEN None ELSE Some(nearest[1])

\* NearestEdgeResponse(edge_id, distance, lat, lon); lat and lon echo the query
NearestEdgeResponse(edge_id, distance) == [edge_id |-> edge_id, distance |-> distance]

\* GET /nearest-edge.  registered: dataset in registry.list_datasets();
\* built: what registry.get_spatial_index(dataset) returns or raises;
\* ids: what the index lookup enumerates.
nearest_edge(registered, built, ids) ==
    IF ~registered THEN HTTPException(404, <<"Dataset not found">>)
    ELSE LET tried ==
               IF IsException(built) THEN built
               ELSE LET result == find_nearest_edge(built.edges, ids) IN
                    IF result = None
                    THEN HTTPException(404, <<"No nearby edges found">>)
                    ELSE NearestEdgeResponse(result[1].id, result[1].dist)
         IN \* except Exception as e: raise HTTPException(500, str(e))
            IF IsException(tried) THEN HTTPException(500, StrOf(tried)) ELSE tried

\* The edges files a request can meet: those of Files, and every table of up
\* to two rows.
ServerFiles ==
    Files \cup {Table({"id", "geometry"}, rows) : rows \in SeqsUpTo(GoodRows \cup BadRows, 2)}

\* find_nearest_edge(lat, lon, max_candidates=10)
NearestDefault == 10

NearestEdgeRequest ==
    /\ \E registered \in BOOLEAN, file \in ServerFiles :
         LET built == load_edges(file)
             pools == IF IsException(built) THEN {<<>>}
                      ELSE Nearest(built.idx, NearestDefault)
         IN \E ids \in pools :
              /\ request' = Some([endpoint |-> "nearest-edge", registered |-> registered,
                                  file |-> file, ids |-> ids])
              /\ response' = Some(Respond(nearest_edge(registered, built, ids)))
    /\ UNCHANGED <<engineVars, raceVars, registryVars, indexVars>>

\* RouteResponse(success=False, error=...)
RouteFailure(error) ==
    [success |-> FALSE, error |-> Some(error), distance |-> None,
     runtime_ms |-> None, path |-> None, geojson |-> None]

\* RouteResponse(success=True, ...) from the engine's result; a result
\* without geojson gets the empty line string.
RouteSuccess(result) ==
    [success |-> TRUE, error |-> None, distance |-> result.distance,
     runtime_ms |-> result.runtime_ms, path |-> result.path,
     geojson |-> IF result.geojson = None THEN Some("empty LineString")
                 ELSE result.geojson]

\* What ch_factory.get_engine(dataset) does: KeyError for a dataset without
\* configuration, FileNotFoundError from the constructor for a missing
\* binary, or an engine.
EngineLookups == {Raise("KeyError"), Raise("FileNotFoundError"), [engine |-> "CHQueryEngine"]}

\* What ch_engine.compute_route_latlon(...) does.  CHQueryEngine has no such
\* method: AttributeError.  The other outcomes are those of an engine object
\* that has it: another exception, or a result with the fields the handler
\* reads; fits tells whether they pass the validation of RouteResponse.
RouteResult(success, error, geojson, fits) ==
    [success |-> success, error |-> error, distance |-> Some(1),
     runtime_ms |-> Some(1), path |-> Some(<<1, 2>>), geojson |-> geojson,
     fits |-> fits]
RouteCalls ==
    {Raise("AttributeError"), Raise("ConnectionError"),
     RouteResult(FALSE, None, None, TRUE),
     RouteResult(FALSE, Some(<<>>), None, TRUE),
     RouteResult(FALSE, Some(<<"No route">>), None, TRUE),
     RouteResult(TRUE, None, None, TRUE),
     RouteResult(TRUE, None, Some("Feature"), TRUE),
     RouteResult(TRUE, None, Some("Feature"), FALSE)}

\* Faulty variant: an unknown dataset is answered as /nearest-edge does.
ComputeRouteRaisesNotFound(registered, search_mode, lookup, call) ==
    IF ~registered THEN HTTPException(404, <<"Dataset not found">>)
    ELSE RouteFailure(<<"Internal server error">>)

\* GET /route.  registered: dataset in registry.list_datasets(); lookup and
\* call: what get_engine and compute_route_latlon do.
compute_route(registered, search_mode, lookup, call) ==
    IF ~registered THEN RouteFailure(<<"Dataset not found">>)
    ELSE IF search_mode \notin {"knn", "radius"}
    THEN RouteFailure(<<"search_mode must be 'knn' or 'radius'">>)
    ELSE LET tried ==
               IF IsException(lookup)
               THEN (IF lookup.exception = "KeyError"
                     THEN RouteFailure(<<"Query engine not available for dataset">>)
                     ELSE lookup)
               ELSE IF IsException(call) THEN call
               ELSE IF ~call.success
               THEN RouteFailure(IF call.error = None \/ call.error = Some(<<>>)
                                 THEN <<"Routing failed">> ELSE call.error[1])
               ELSE IF ~call.fits THEN Raise("ValidationError")
               ELSE RouteSuccess(call)
         IN \* except Exception as e: RouteResponse(success=False, ...)
            IF IsException(tried)
            THEN RouteFailure(<<"Internal server error", tried.exception>>)
            ELSE tried

SearchModes == {"knn", "radius", "nearest"}

RouteRequest ==
    /\ \E registered \in BOOLEAN, search_mode \in SearchModes,
          lookup \in EngineLookups, call \in RouteCalls :
         /\ request' = Some([endpoint |-> "route", registered |-> registered,
                             search_mode |-> search_mode, lookup |-> lookup,
                             call |-> call])
         /\ response' = Some(Respond(compute_route(registered, search_mode,
                                                    lookup, call)))
    /\ UNCHANGED <<engineVars, raceVars, registryVars, indexVars>>

ServerNext == NearestEdgeRequest \/ RouteRequest

IndexNext ==
    \/ LoadRow
    \/ LoadEnd
    \/ FindNearestEdges

Init == EngineInit /\ RaceIdle /\ RegistryIdle /\ IndexIdle /\ ServerIdle

SpecIndex == Init /\ [][IndexNext]_vars

\* A SpatialIndex loaded row by row, then asked for the edges within a radius.
RadiusNext ==
    \/ LoadRow
    \/ LoadEnd
    \/ FindEdgesWithinRadius

SpecRadius == Init /\ [][RadiusNext]_vars
SpecServer == Init /\ [][ServerNext]_vars

Next ==
    \/ CheckMultiQuerySupport
    \/ Query
    \/ QueryMulti
    \/ FallbackPair
    \/ FallbackReturn
    \/ ParseOutput
    \/ ParseReport

Spec == Init /\ [][Next]_vars

\* The parser alone, on every text of Payloads.
SpecParser == Init /\ [][ParseOutput \/ ParseReport]_vars

\* One query_multi call on a fresh engine, with its fallback search.
MultiNext == QueryMulti \/ FallbackPair \/ FallbackReturn
SpecMulti == Init /\ [][MultiNext]_vars

\* ------------------------------------- concurrent callers of the probe
\* Each caller runs _check_multi_query_support once; a step is one access to
\* self._supports_multi_query or the subprocess run between two accesses.
engineRest == <<pc, op, args, i, j, best_distance, best_path, best_runtime,
                hist, ret, lastOut, probeRets, nProbeCalls, helpBoth, payload, rendered>>

\* if self._supports_multi_query is not None
ProbeCheck(t) ==
    /\ tpc[t] = "idle"
    /\ tpc' = [tpc EXCEPT ![t] = IF supports # None THEN "ret78" ELSE "run"]
    /\ UNCHANGED <<supports, cmds, tout, tret, engineRest, registryVars, indexVars, serverVars>>

\* return self._supports_multi_query (the cached branch)
ProbeReturnCached(t) ==
    /\ tpc[t] = "ret78"
    /\ tret' = [tret EXCEPT ![t] = supports]
    /\ tpc' = [tpc EXCEPT ![t] = "done"]
    /\ UNCHANGED <<supports, cmds, tout, engineRest, registryVars, indexVars, serverVars>>

\* subprocess.run([binary, "--help"], timeout=5)
ProbeRun(t) ==
    /\ tpc[t] = "run"
    /\ \E out \in HelpOutcomes :
         /\ tout' = [tout EXCEPT ![t] = Some(out)]
         /\ tpc' = [tpc EXCEPT ![t] = IF out.kind = "exit" THEN "store" ELSE "except"]
    /\ cmds' = Append(cmds, HelpCmd)
    /\ UNCHANGED <<supports, tret, engineRest, registryVars, indexVars, serverVars>>

\* self._supports_multi_query = "--sources" in output and "--optimized" in output
ProbeStore(t) ==
    /\ tpc[t] = "store"
    /\ supports' = Some(ProbeValue(tout[t][1]))
    /\ tpc' = [tpc EXCEPT ![t] = "ret91"]
    /\ UNCHANGED <<cmds, tout, tret, engineRest, registryVars, indexVars, serverVars>>

\* return self._supports_multi_query (after the store)
ProbeReturnStored(t) ==
    /\ tpc[t] = "ret91"
    /\ tret' = [tret EXCEPT ![t] = supports]
    /\ tpc' = [tpc EXCEPT ![t] = "done"]
    /\ UNCHANGED <<supports, cmds, tout, engineRest, registryVars, indexVars, serverVars>>

\* except Exception: self._supports_multi_query = False; return False
ProbeExcept(t) ==
    /\ tpc[t] = "except"
    /\ supports' = Some(FALSE)
    /\ tret' = [tret EXCEPT ![t] = Some(FALSE)]
    /\ tpc' = [tpc EXCEPT ![t] = "done"]
    /\ UNCHANGED <<cmds, tout, engineRest, registryVars, indexVars, serverVars>>

RaceNext ==
    \E t \in Threads :
        \/ ProbeCheck(t)
        \/ ProbeReturnCached(t)
        \/ ProbeRun(t)
        \/ ProbeStore(t)
        \/ ProbeReturnStored(t)
        \/ ProbeExcept(t)

SpecRace == Init /\ [][RaceNext]_vars

\* ------------------------------------------------------- DatasetRegistry
\* register_dataset(name, ..., edges_path, ...)
RegisterDataset ==
    /\ \E name \in Names, path \in Paths : datasets' = Put(datasets, name, path)
    /\ UNCHANGED <<spatial_indices, nextIndex, builds, rpc, rname, rbuilt, rgot,
                   rcall, rfile>>
    /\ UNCHANGED <<engineVars, raceVars, indexVars, serverVars>>

\* Faulty variant: load_dataset never finds the dataset loaded.
AlreadyLoadedNever(name, indices) == FALSE

\* name in self.spatial_indices
AlreadyLoaded(name, indices) == name \in DOMAIN indices

\* get_spatial_index(name): if name not in self.spatial_indices
GetSpatialIndex(t) ==
    /\ rpc[t] = "idle"
    /\ \E name \in Names :
         /\ rname' = [rname EXCEPT ![t] = Some(name)]
         /\ rpc' = [rpc EXCEPT ![t] =
                      IF name \in DOMAIN spatial_indices THEN "ret267" ELSE "load251"]
    /\ rcall' = [rcall EXCEPT ![t] = "get"]
    /\ UNCHANGED <<datasets, spatial_indices, nextIndex, builds, rbuilt, rgot, rfile>>
    /\ UNCHANGED <<engineVars, raceVars, indexVars, serverVars>>

\* load_dataset(name), called directly
LoadDataset(t) ==
    /\ rpc[t] = "idle"
    /\ \E name \in Names : rname' = [rname EXCEPT ![t] = Some(name)]
    /\ rpc' = [rpc EXCEPT ![t] = "load251"]
    /\ rcall' = [rcall EXCEPT ![t] = "load"]
    /\ UNCHANGED <<datasets, spatial_indices, nextIndex, builds, rbuilt, rgot, rfile>>
    /\ UNCHANGED <<engineVars, raceVars, indexVars, serverVars>>

\* load_dataset(name): if name not in self.datasets: raise ValueError
LoadCheckKnown(t) ==
    /\ rpc[t] = "load251"
    /\ rpc' = [rpc EXCEPT ![t] =
                 IF rname[t][1] \in DOMAIN datasets THEN "load254" ELSE "raised"]
    /\ UNCHANGED <<datasets, spatial_indices, nextIndex, builds, rname, rbuilt, rgot,
                   rcall, rfile>>
    /\ UNCHANGED <<engineVars, raceVars, indexVars, serverVars>>

\* load_dataset(name): if name in self.spatial_indices: return
LoadCheckLoaded(t) ==
    /\ rpc[t] = "load254"
    /\ rpc' = [rpc EXCEPT ![t] =
                 IF AlreadyLoaded(rname[t][1], spatial_indices)
                 THEN (IF rcall[t] = "get" THEN "ret267" ELSE "done")
                 ELSE "build"]
    /\ UNCHANGED <<datasets, spatial_indices, nextIndex, builds, rname, rbuilt, rgot,
                   rcall, rfile>>
    /\ UNCHANGED <<engineVars, raceVars, indexVars, serverVars>>

\* SpatialIndex(edges_path): a new instance is constructed from the file
\* found at the path, or the constructor raises.
LoadBuild(t) ==
    /\ rpc[t] = "build"
    /\ \E file \in Files :
         LET name == rname[t][1]
             built == load_edges(file)
         IN /\ rfile' = [rfile EXCEPT ![t] = Some(file)]
            /\ IF IsException(built)
               THEN /\ rpc' = [rpc EXCEPT ![t] = "raised"]
                    /\ UNCHANGED <<rbuilt, nextIndex, builds>>
               ELSE /\ rbuilt' = [rbuilt EXCEPT ![t] =
                                    Some([ident |-> nextIndex,
                                          edges_csv_path |-> datasets[name],
                                          edges |-> built.edges,
                                          idx |-> built.idx])]
                    /\ nextIndex' = nextIndex + 1
                    /\ builds' = [builds EXCEPT ![name] = @ + 1]
                    /\ rpc' = [rpc EXCEPT ![t] = "store"]
    /\ UNCHANGED <<datasets, spatial_indices, rname, rgot, rcall>>
    /\ UNCHANGED <<engineVars, raceVars, indexVars, serverVars>>

\* self.spatial_indices[name] = <the new instance>
LoadStore(t) ==
    /\ rpc[t] = "store"
    /\ spatial_indices' = Put(spatial_indices, rname[t][1], rbuilt[t][1])
    /\ rpc' = [rpc EXCEPT ![t] = IF rcall[t] = "get" THEN "ret267" ELSE "done"]
    /\ UNCHANGED <<datasets, nextIndex, builds, rname, rbuilt, rgot, rcall, rfile>>
    /\ UNCHANGED <<engineVars, raceVars, indexVars, serverVars>>

\* return self.spatial_indices[name]
GetReturn(t) ==
    /\ rpc[t] = "ret267"
    /\ rgot' = [rgot EXCEPT ![t] = Some(spatial_indices[rname[t][1]])]
    /\ rpc' = [rpc EXCEPT ![t] = "done"]
    /\ UNCHANGED <<datasets, spatial_indices, nextIndex, builds, rname, rbuilt,
                   rcall, rfile>>
    /\ UNCHANGED <<engineVars, raceVars, indexVars, serverVars>>

\* The caller's call is over (returned or raised) and it makes another one.
CallAgain(t) ==
    /\ rpc[t] \in {"done", "raised"}
    /\ rpc' = [rpc EXCEPT ![t] = "idle"]
    /\ rname' = [rname EXCEPT ![t] = None]
    /\ rbuilt' = [rbuilt EXCEPT ![t] = None]
    /\ rgot' = [rgot EXCEPT ![t] = None]
    /\ rcall' = [rcall EXCEPT ![t] = "none"]
    /\ rfile' = [rfile EXCEPT ![t] = None]
    /\ UNCHANGED <<datasets, spatial_indices, nextIndex, builds>>
    /\ UNCHANGED <<engineVars, raceVars, indexVars, serverVars>>

RegistryNext ==
    \/ RegisterDataset
    \/ \E t \in Threads :
        \/ GetSpatialIndex(t)
        \/ LoadCheckKnown(t)
        \/ LoadCheckLoaded(t)
        \/ LoadBuild(t)
        \/ LoadStore(t)
        \/ GetReturn(t)

\* A sequential series of calls: a call starts, and register_dataset runs,
\* only when no other call is under way.
Between(t) == \A u \in Threads \ {t} : rpc[u] \in {"idle", "done", "raised"}

SeqNext ==
    \/ (\A t \in Threads : rpc[t] \in {"idle", "done", "raised"}) /\ RegisterDataset
    \/ \E t \in Threads :
        /\ Between(t)
        /\ \/ GetSpatialIndex(t)
           \/ LoadDataset(t)
           \/ LoadCheckKnown(t)
           \/ LoadCheckLoaded(t)
           \/ LoadBuild(t)
           \/ LoadStore(t)
           \/ GetReturn(t)
           \/ CallAgain(t)

SpecSeq == Init /\ [][SeqNext]_vars

SpecRegistry == Init /\ [][RegistryNext]_vars

\* ------------------------------------------------------------- properties
Done(o) == pc = "done" /\ op = o
\* the list arguments a do not pair up
Mismatch(a) == Len(a.se) # Len(a.sd) \/ Len(a.te) # Len(a.td)
LengthsOk == ~Mismatch(args)
\* query_multi has returned through _query_multi_fallback
FallbackDone == Done("query_multi") /\ LengthsOk /\ supports = Some(FALSE)
\* query_multi has returned from its batch branch
BatchDone == Done("query_multi") /\ LengthsOk /\ supports = Some(TRUE)

\* pairs whose single-pair query succeeded, by position in call order
Succ == {k \in 1..Len(hist) : hist[k].result.success}
\* source_distances[i] + C[i][j] + target_distances[j] of the k-th pair
Total(k) ==
    Plus(Plus(args.sd[hist[k].i], hist[k].result.distance[1]), args.td[hist[k].j])
IsMin(k) == \A l \in Succ : ~Less(Total(l), Total(k))
SelectsMinimum ==
    /\ ret[1].success
    /\ \E k \in Succ :
         /\ IsMin(k)
         /\ ret[1].distance = Some(Total(k))
         /\ ret[1].path = hist[k].result.path
NoPathBetweenSets == ret[1] = Failure("No path found between source and target sets")
PairCalls(source, target) ==
    Cardinality({k \in 1..Len(cmds) : cmds[k] = SingleCmd(source, target)})

\* C1 (as stated): whenever some pair succeeds, the fallback search returns
\* success with the minimum over the successful pairs of approach + cost +
\* approach, and the path of a pair attaining it.
C1_AnySuccessSelectsMinimum ==
    (FallbackDone /\ Succ # {}) => SelectsMinimum

\* C1 (amended): whenever some pair succeeds with a finite total, the fallback
\* search returns success with the minimum over the successful pairs of
\* approach + cost + approach, and the path of a pair attaining it.
C1_FiniteSuccessSelectsMinimum ==
    (FallbackDone /\ \E k \in Succ : IsFinite(Total(k))) => SelectsMinimum

\* A 2 x 2 search whose strict minimum is the third pair, with both of that
\* pair's approach distances non-zero.
C1_Witness ==
    /\ FallbackDone /\ Len(hist) = 4 /\ Succ = 1..4
    /\ \A l \in {1, 2, 4} : Less(Total(3), Total(l))
    /\ args.sd[hist[3].i] > 0 /\ args.td[hist[3].j] > 0
    /\ ret[1].path = hist[3].result.path

\* C3: probes called in sequence all return the same boolean and --help is run
\* at most once.
C3_ProbeIdempotent ==
    Count("help") <= 1 /\ Cardinality(probeRets) <= 1

\* Two direct probe calls after which False is cached: --help ran once.
C3_Witness ==
    /\ op = "probe" /\ nProbeCalls >= 2
    /\ Count("help") = 1 /\ probeRets = {FALSE}

\* C5: the fallback search queries every (source, target) pair exactly once,
\* N*M single-pair calls in all, whatever each call's outcome; while it runs
\* no pair has been queried twice.
C5_EveryPairOnce ==
    /\ pc = "fallback" =>
         \A a \in 1..Len(args.se), b \in 1..Len(args.te) :
            PairCalls(args.se[a], args.te[b]) <= 1
    /\ FallbackDone =>
         /\ \A a \in 1..Len(args.se), b \in 1..Len(args.te) :
               PairCalls(args.se[a], args.te[b]) = 1
         /\ Count("single") = Len(args.se) * Len(args.te)
         /\ Len(hist) = Len(args.se) * Len(args.te)

\* Four pairs: a success, then a timeout, a launch error and a parse failure.
C5_Witness ==
    /\ FallbackDone /\ Len(hist) = 4
    /\ hist[1].result.success
    /\ \E k \in 2..4 : hist[k].result = Failure("Query timeout")
    /\ \E k \in 2..4 : hist[k].result = Failure("Query error")
    /\ \E k \in 2..4 : hist[k].result = Failure("No path found")

\* C6 (as stated): the fallback search fails with "No path found between
\* source and target sets" exactly when no pair succeeded.
C6_FailsIffNoSuccess ==
    FallbackDone => (NoPathBetweenSets <=> Succ = {}) /\ (Succ # {} => ret[1].success)

\* C6 (amended): the fallback search fails with "No path found between source
\* and target sets" exactly when no pair succeeded with a finite total
\* distance; otherwise it returns success.
C6_FailsIffNoFiniteSuccess ==
    FallbackDone =>
        /\ NoPathBetweenSets <=> (\A k \in Succ : ~IsFinite(Total(k)))
        /\ ret[1].success <=> (\E k \in Succ : IsFinite(Total(k)))

\* Every pair but the last fails; the last succeeds, and so does the search.
C6_Witness ==
    /\ FallbackDone /\ Len(hist) = 4
    /\ Succ = {4} /\ ret[1].success

\* C7: with batch support probed, query_multi issues exactly one batch call
\* carrying all candidates and approach distances, no single-pair call, and
\* returns the engine-reported distance unchanged; without it, no batch call
\* is ever issued and every query call is a single-pair call.
C7_DispatchOnCapability ==
    /\ BatchDone =>
         /\ Count("batch") = 1 /\ Count("single") = 0
         /\ \E o \in BOOLEAN :
               cmds[Len(cmds)] = BatchCmd(args.se, args.sd, args.te, args.td, o)
         /\ ret[1].success =>
               \E k \in 1..Len(lastOut[1].stdout) :
                  /\ Branch(lastOut[1].stdout[k]) = "dist"
                  /\ lastOut[1].stdout[k].val = DistTxt(ret[1].distance[1])
    /\ (op = "query_multi" /\ LengthsOk /\ supports = Some(FALSE)) =>
         /\ Count("batch") = 0
         /\ Count("single") = Len(hist)

\* A batch call with non-zero approach distances whose reported distance 0 is
\* returned as is.
C7_Witness ==
    /\ BatchDone /\ ret[1].success /\ ret[1].distance = Some(0)
    /\ Len(args.sd) > 0 /\ Len(args.td) > 0
    /\ args.sd[1] > 0 /\ args.td[1] > 0

\* C8: a query_multi call with mismatched lengths returns a failure and makes
\* no engine call of any kind (no probe either), leaving the cached flag alone.
C8_MismatchIsLocal ==
    [][(pc = "idle" /\ op' = "query_multi" /\ pc' # "idle"
        /\ Mismatch(args'))
       => (/\ pc' = "done"
           /\ ~ret'[1].success
           /\ cmds' = cmds
           /\ supports' = supports)]_vars

\* A mismatched call on an engine whose flag was already cached.
C8_Witness ==
    /\ Done("query_multi") /\ ~LengthsOk
    /\ Len(args.te) # Len(args.td) /\ Len(args.se) = Len(args.sd)
    /\ supports = Some(FALSE) /\ ~ret[1].success

\* C9 (as stated): with an empty source or target candidate list query_multi
\* fails without any batch or single-pair engine call, batch-capable or not.
C9_EmptySideNoEngineCall ==
    (Done("query_multi") /\ LengthsOk /\ (Len(args.se) = 0 \/ Len(args.te) = 0))
    => (~ret[1].success /\ Count("batch") = 0 /\ Count("single") = 0)

\* C10: query issues exactly one engine invocation, a single-pair one; a
\* non-zero exit status yields the "No path found or query failed" failure and
\* a timeout the timeout failure.
C10_QueryOneCallNoRetry ==
    Done("query") =>
        /\ Count("single") = 1 /\ Count("batch") = 0
        /\ cmds[Len(cmds)].form = "single"
        /\ (lastOut[1].kind = "exit" /\ lastOut[1].returncode # 0)
              => ret[1] = Failure("No path found or query failed")
        /\ lastOut[1].kind = "timeout" => ret[1] = Failure("Query timeout")

\* A query whose engine run exited non-zero although it printed a route.
C10_Witness ==
    /\ Done("query")
    /\ lastOut[1].kind = "exit" /\ lastOut[1].returncode # 0
    /\ Len(lastOut[1].stdout) > 0
    /\ ret[1] = Failure("No path found or query failed")

\* C2 (as stated): concurrent first-time get_spatial_index calls for one
\* registered dataset build exactly one SpatialIndex for it, and all callers
\* receive that same instance.
C2_SingleFlight ==
    /\ \A n \in Names : builds[n] <= 1
    /\ \A t \in Threads, u \in Threads :
         (rpc[t] = "done" /\ rpc[u] = "done" /\ rname[t] = rname[u])
            => rgot[t] = rgot[u]

\* C4 (as stated): callers racing on the first probe all return the same
\* boolean, and the cached flag, once not None, never changes.
C4_RaceConverges ==
    [][/\ supports # None => supports' = supports
       /\ \A t \in Threads, u \in Threads :
            (tret'[t] # None /\ tret'[u] # None) => tret'[t] = tret'[u]]_vars

\* a value of the QueryResult dataclass: a success with distance and path and
\* no error, or a failure with an error message and nothing else
IsQueryResult(r) ==
    /\ DOMAIN r = {"success", "distance", "runtime_ms", "path", "error"}
    /\ r.success \in BOOLEAN
    /\ r.success => (r.error = None /\ r.path # None)
    /\ ~r.success => (r.error # None /\ r.path = None /\ r.distance = None)

\* C11: whatever the engine does (exit, non-zero exit, timeout, failure to
\* launch, malformed output), query, query_multi (batch branch and fallback
\* search) and _parse_output end by returning a QueryResult: no exception
\* leaves them, every single-pair call of the search returns one too, and the
\* search never indexes a distance list out of range.
C11_AlwaysReturnsQueryResult ==
    /\ pc \in {"idle", "fallback", "done"}
    /\ (pc = "done" /\ op \in {"query", "query_multi", "parse"}) =>
          (ret # None /\ IsQueryResult(ret[1]))
    /\ \A k \in 1..Len(hist) : IsQueryResult(hist[k].result)
    /\ (pc = "fallback" /\ i <= Len(args.se) /\ j <= Len(args.te)) =>
          (i \in DOMAIN args.sd /\ j \in DOMAIN args.td)

\* A direct _parse_output call on a text with an unparseable number: the
\* ValueError is turned into a failure.
C11_Witness ==
    /\ Done("parse")
    /\ \E k \in 1..Len(payload) :
          /\ \A l \in 1..k : ~payload[l].nopath
          /\ payload[k].distance /\ payload[k].shape = "single"
          /\ payload[k].val = BadTxt
    /\ ret[1] = Failure("Parse error")

\* C12: the probe never raises: when the --help run fails, times out or
\* prints only one or neither of the markers --sources and --optimized, the
\* probe returns False and caches it, and a later query_multi on that engine
\* goes through the fallback search: no batch call, one single-pair call per
\* pair.
C12_InconclusiveProbeIsFalse ==
    helpBoth = Some(FALSE) =>
        /\ supports = Some(FALSE)
        /\ probeRets = {FALSE}
        /\ (op = "query_multi" /\ LengthsOk) =>
              /\ pc \in {"fallback", "done"}
              /\ Count("batch") = 0
              /\ Count("single") = Len(hist)
              /\ pc = "done" => Len(hist) = Len(args.se) * Len(args.te)

\* After an inconclusive --help run, a query_multi over two sources and one
\* target has made its two single-pair calls and returned.
C12_Witness ==
    /\ helpBoth = Some(FALSE)
    /\ Done("query_multi") /\ LengthsOk
    /\ Len(args.se) = 2 /\ Len(args.te) = 1
    /\ Count("help") = 1 /\ Count("single") = 2 /\ Count("batch") = 0

\* the text has a line with "No path found"; the first such line
HasNoPathLine == \E k \in 1..Len(payload) : payload[k].nopath
FirstNoPath == CHOOSE k \in 1..Len(payload) :
                  payload[k].nopath /\ \A l \in 1..(k - 1) : ~payload[l].nopath
\* a distance or runtime line whose number float() rejects, or a path line
\* with a token int() rejects
Unreadable(line) ==
    /\ ~line.nopath
    /\ \/ line.distance /\ line.shape # "none" /\ line.val = BadTxt
       \/ ~(line.distance /\ line.shape # "none") /\ line.runtime /\ line.val = BadTxt
       \/ /\ ~(line.distance /\ line.shape # "none") /\ ~line.runtime /\ line.expanded
          /\ \E t \in 1..Len(line.toks) : line.toks[t] = SuperTok

\* C13 (as stated): _parse_output returns the failure "No path found" for
\* every text that has a line with "No path found", whatever its other lines.
C13_NoPathLineDecides ==
    (Done("parse") /\ HasNoPathLine) => ret[1] = Failure("No path found")

\* C13 (amended): _parse_output returns a failure for every text that has a
\* line with "No path found", whatever its other lines; the reason is "No
\* path found" unless a line before the first such line has an unreadable
\* number or path token, and then it is the parse error.
C13_NoPathLineFails ==
    (Done("parse") /\ HasNoPathLine) =>
        /\ ~ret[1].success
        /\ IF \E l \in 1..(FirstNoPath - 1) : Unreadable(payload[l])
           THEN ret[1] = Failure("Parse error")
           ELSE ret[1] = Failure("No path found")

\* A complete route report followed by a "No path found" line is a failure.
C13_Witness ==
    /\ Done("parse") /\ Len(payload) = 3
    /\ Branch(payload[1]) = "dist" /\ payload[1].val # BadTxt
    /\ Branch(payload[2]) = "path"
    /\ payload[3] = NoPathLine
    /\ ret[1] = Failure("No path found")

\* C14: _parse_output returns a failure whenever the text yields no distance
\* or no path, "Failed to parse query output" when nothing else went wrong,
\* and a success always carries both a distance and a path.
C14_SuccessNeedsDistanceAndPath ==
    Done("parse") =>
        /\ ret[1].success => (ret[1].distance # None /\ ret[1].path # None)
        /\ ((\A k \in 1..Len(payload) : Branch(payload[k]) # "dist")
            \/ (\A k \in 1..Len(payload) : Branch(payload[k]) # "path")) =>
              /\ ~ret[1].success
              /\ (~HasNoPathLine /\ \A k \in 1..Len(payload) : ~Unreadable(payload[k]))
                    => ret[1] = Failure("Failed to parse query output")

\* A text with a path line and a runtime line and no distance line.
C14_Witness ==
    /\ Done("parse") /\ Len(payload) = 2
    /\ \E k \in 1..2 : Branch(payload[k]) = "path"
    /\ \E k \in 1..2 : Branch(payload[k]) = "runtime" /\ payload[k].val # BadTxt
    /\ ret[1] = Failure("Failed to parse query output")

\* C15: parser round trip: the report of a distance D, a runtime R and a path,
\* in the single-pair or the batch shape and with its three lines in any
\* order, parses to exactly the success with distance D, runtime R and that
\* path.
C15_RoundTrip ==
    (Done("parse") /\ rendered # None) =>
        ret[1] = QueryResult(TRUE, Some(rendered[1].distance),
                             Some(rendered[1].runtime_ms),
                             Some(rendered[1].path), None)

\* A batch-shape report of a three-edge path whose path line comes first and
\* whose distance line comes last.
C15_Witness ==
    /\ Done("parse") /\ rendered # None
    /\ Len(rendered[1].path) = 3 /\ rendered[1].path[1] # rendered[1].path[3]
    /\ payload[1].expanded /\ payload[3].distance /\ payload[3].shape = "batch"
    /\ ret[1].success /\ ret[1].path = Some(rendered[1].path)

\* the tokens of a path line that are non-negative integers, in order
IntegerTokens(toks) ==
    LET ints == SelectSeq(toks, LAMBDA t : t.t = "num") IN
    [k \in 1..Len(ints) |-> ints[k].v]

\* C16 (as stated): the parsed path is exactly the sequence, in order, of the
\* tokens of the path line that are non-negative integers; the ellipsis and
\* every malformed token are dropped and never change, merge into or abort
\* the other tokens.
C16_PathIsIntegerTokens ==
    (/\ Done("parse") /\ Len(payload) = 2
     /\ payload[1] = DistLine(NumTxt(1))
     /\ payload[2] = PathLine(payload[2].toks))
    => (ret[1].success /\ ret[1].path = Some(IntegerTokens(payload[2].toks)))

\* C17 (as stated): every successful QueryResult produced by _parse_output,
\* query, query_multi or the fallback search has a non-empty path.
C17_SuccessHasNonEmptyPath ==
    /\ (pc = "done" /\ ret # None /\ ret[1].success) =>
          (ret[1].path # None /\ ret[1].path[1] # <<>>)
    /\ \A k \in 1..Len(hist) :
          hist[k].result.success =>
             (hist[k].result.path # None /\ hist[k].result.path[1] # <<>>)

\* the edge ids of a candidate list
Edges(s) == {s[k] : k \in 1..Len(s)}

\* C18 (as stated): on every successful multi-candidate result the returned
\* path starts at a source candidate and ends at a target candidate: in the
\* fallback search those of a pair whose total is the winning one, in the
\* batch branch (called with candidates on both sides) some candidates of the
\* two lists.
C18_PathJoinsCandidates ==
    /\ (FallbackDone /\ ret[1].success) =>
          \E k \in Succ :
             /\ IsMin(k) /\ ret[1].distance = Some(Total(k))
             /\ ret[1].path[1] # <<>>
             /\ ret[1].path[1][1] = args.se[hist[k].i]
             /\ ret[1].path[1][Len(ret[1].path[1])] = args.te[hist[k].j]
    /\ (BatchDone /\ ret[1].success /\ args.se # <<>> /\ args.te # <<>>) =>
          /\ ret[1].path[1] # <<>>
          /\ ret[1].path[1][1] \in Edges(args.se)
          /\ ret[1].path[1][Len(ret[1].path[1])] \in Edges(args.te)

\* pair k was queried no later than pair l: lower source index, or the same
\* source index and no higher target index
NotAfter(k, l) ==
    \/ hist[k].i < hist[l].i
    \/ hist[k].i = hist[l].i /\ hist[k].j <= hist[l].j

\* C19: when several pairs attain the same minimal total, the fallback search
\* keeps and returns the result of the one with the lowest source index and,
\* among those, the lowest target index; a later pair with an equal total
\* never replaces it, neither while the loops run nor in the value returned.
C19_FirstFoundWinsTies ==
    /\ ((pc = "fallback" \/ FallbackDone) /\ best_path # None) =>
          \E k \in Succ :
             /\ best_distance = Total(k)
             /\ best_path = hist[k].result.path
             /\ \A l \in Succ : Total(l) = Total(k) => NotAfter(k, l)
    /\ (FallbackDone /\ ret[1].success) =>
          (ret[1].path = best_path /\ ret[1].distance = Some(best_distance))

\* Four pairs, all with the same total: the first one is returned.
C19_Witness ==
    /\ FallbackDone /\ Len(hist) = 4 /\ Succ = 1..4
    /\ \A l \in 2..4 : Total(l) = Total(1) /\ IsFinite(Total(l))
    /\ ret[1].success /\ ret[1].path = hist[1].result.path
    /\ hist[1].i = 1 /\ hist[1].j = 1

\* the returned list is made of distinct positions of the pool, each with the
\* true distance of its edge, and the positions left out are no nearer than
\* any returned one
FromPool(res, ids) ==
    \E f \in [1..Len(res) -> 1..Len(ids)] :
       /\ \A a, b \in 1..Len(res) : a # b => f[a] # f[b]
       /\ \A a \in 1..Len(res) :
             /\ res[a].id = ids[f[a]]
             /\ res[a].dist = edges[res[a].id].dist
       /\ \A q \in 1..Len(ids) :
             (\A a \in 1..Len(res) : f[a] # q) =>
                \A a \in 1..Len(res) : res[a].dist <= edges[ids[q]].dist

\* C20: find_nearest_edges returns at most max_results candidates of the pool
\* the index gave, sorted by non-decreasing true distance, none of them
\* farther than a candidate of the pool that was not returned; when the index
\* gives nothing it returns the empty list.
C20_NearestOfPool ==
    (ipc = "done" /\ fargs.call = "nearest") =>
        /\ found # None
        /\ Len(found[1]) <= fargs.max_results
        /\ \A a, b \in 1..Len(found[1]) : a < b => found[1][a].dist <= found[1][b].dist
        /\ FromPool(found[1], nearby_ids)
        /\ nearby_ids = <<>> => found[1] = <<>>

\* A pool of three whose nearest edge by true distance came last from the
\* index, cut to two results.
C20_Witness ==
    /\ ipc = "done" /\ Len(nearby_ids) = 3 /\ fargs.max_results = 2
    /\ Len(found[1]) = 2
    /\ found[1][1].id = nearby_ids[3]
    /\ found[1][1].dist < found[1][2].dist
    /\ \A q \in 1..2 : edges[nearby_ids[q]].dist > found[1][1].dist

\* C21: find_edges_within_radius returns no candidate whose true distance
\* exceeds radius_meters, returns its candidates by ascending distance, each
\* with the distance of its edge, and returns at most max_results of them;
\* when it truncates, every candidate of the index lookup that is within the
\* radius and left out is no nearer than the returned ones.
C21_WithinRadiusClosestFirst ==
    (ipc = "done" /\ fargs.call = "radius") =>
        /\ found # None
        /\ \A a \in 1..Len(found[1]) : found[1][a].dist <= fargs.radius_meters
        /\ \A a, b \in 1..Len(found[1]) : a < b => found[1][a].dist <= found[1][b].dist
        /\ Len(found[1]) <= fargs.max_results
        /\ \E f \in [1..Len(found[1]) -> 1..Len(nearby_ids)] :
              /\ \A a, b \in 1..Len(found[1]) : a # b => f[a] # f[b]
              /\ \A a \in 1..Len(found[1]) :
                    /\ found[1][a].id = nearby_ids[f[a]]
                    /\ found[1][a].dist = edges[found[1][a].id].dist
              /\ \A q \in 1..Len(nearby_ids) :
                    (/\ \A a \in 1..Len(found[1]) : f[a] # q
                     /\ edges[nearby_ids[q]].dist <= fargs.radius_meters) =>
                       /\ Len(found[1]) = fargs.max_results
                       /\ \A a \in 1..Len(found[1]) :
                             found[1][a].dist <= edges[nearby_ids[q]].dist

\* Three candidates reach the search box: one lies beyond the radius, and of
\* the two within it only the nearer is returned.
C21_Witness ==
    /\ ipc = "done" /\ fargs.call = "radius"
    /\ fargs.radius_meters = 1 /\ fargs.max_results = 1
    /\ Len(nearby_ids) = 3
    /\ \E q \in 1..3 : edges[nearby_ids[q]].dist > 1
    /\ \E q \in 1..3 : edges[nearby_ids[q]].dist = 1
    /\ Len(found[1]) = 1 /\ found[1][1].dist = 0
    /\ found[1][1].id # nearby_ids[1]

\* C22 (as stated): returned candidates of equal distance are ordered by
\* ascending edge id, here for find_nearest_edges.
C22_TiesByEdgeId ==
    (ipc = "done" /\ fargs.call = "nearest") =>
        \A a, b \in 1..Len(found[1]) :
           (a < b /\ found[1][a].dist = found[1][b].dist) =>
              found[1][a].id <= found[1][b].id

\* C30 (as stated): no edge id appears more than once in a list returned by
\* find_nearest_edges, also when the edges file has the same id on several
\* rows.
C30_NoRepeatedEdgeId ==
    (ipc = "done" /\ fargs.call = "nearest") =>
        \A a, b \in 1..Len(found[1]) : a # b => found[1][a].id # found[1][b].id

\* C23: over a sequential series of register_dataset, load_dataset and
\* get_spatial_index calls, registering builds nothing, an index is built at
\* most once for a name, a get_spatial_index call returns the instance the
\* registry holds for the name, and no step removes or replaces an instance
\* the registry holds, a re-registration of the name under another path
\* included.
C23_BuiltOnceAndKept ==
    [][/\ \A n \in DOMAIN spatial_indices :
            n \in DOMAIN spatial_indices' /\ spatial_indices'[n] = spatial_indices[n]
       /\ datasets' # datasets =>
            (spatial_indices' = spatial_indices /\ builds' = builds
                /\ nextIndex' = nextIndex)
       /\ \A n \in Names : builds'[n] <= 1
       /\ \A t \in Threads :
            (rpc[t] # "done" /\ rpc'[t] = "done" /\ rcall[t] = "get") =>
               /\ rname[t][1] \in DOMAIN spatial_indices
               /\ rgot'[t] = Some(spatial_indices[rname[t][1]])]_vars

\* two get_spatial_index calls for one name returned the one instance built
\* for it, and the name is now registered under another path than the one
\* the instance was built from
C23_Witness ==
    \E t, u \in Threads :
       /\ t # u
       /\ rpc[t] = "done" /\ rpc[u] = "done"
       /\ rcall[t] = "get" /\ rcall[u] = "get"
       /\ rname[t] = rname[u]
       /\ rgot[t] # None /\ rgot[t] = rgot[u]
       /\ builds[rname[t][1]] = 1
       /\ datasets[rname[t][1]] # rgot[t][1].edges_csv_path

C25_OptimizedOnlyPassedThrough ==
    [][(pc = "idle" /\ op' = "query_multi") =>
         \E helpOut \in HelpAnswers :
         \A optimized \in BOOLEAN :
            LET batchOut == IF lastOut' = None THEN TimeoutExpired ELSE lastOut'[1]
                h == QueryMultiHead(args'.se, args'.te, args'.sd, args'.td,
                                    optimized, helpOut, batchOut)
            IN /\ h.ret = ret' /\ h.pc = pc' /\ h.supports = supports'
               /\ h.i = i' /\ h.j = j' /\ h.hist = hist' /\ h.lastOut = lastOut'
               /\ h.best_distance = best_distance' /\ h.best_path = best_path'
               /\ h.best_runtime = best_runtime'
               /\ Len(h.cmds) = Len(cmds')
               /\ \A c \in 1..Len(h.cmds) :
                    /\ [h.cmds[c] EXCEPT !.optimized = FALSE]
                          = [cmds'[c] EXCEPT !.optimized = FALSE]
                    /\ h.cmds[c].optimized = (h.cmds[c].form = "batch" /\ optimized)]_vars

\* a batch call that carried --optimized returned a route
C25_Witness ==
    /\ Done("query_multi")
    /\ cmds # <<>>
    /\ cmds[Len(cmds)].form = "batch" /\ cmds[Len(cmds)].optimized
    /\ ret[1].success

\* the k-th pair of the search reported a route, and the three bests are its
\* total, its path and its runtime
BestIsPair(k, distance, path, runtime_ms) ==
    /\ hist[k].result.success /\ hist[k].result.distance # None
    /\ distance = Total(k)
    /\ path = hist[k].result.path
    /\ runtime_ms = hist[k].result.runtime_ms

\* C27: at every point of the fallback search the best distance, path and
\* runtime are the initial ones or those of one and the same pair already
\* queried, and a successful return carries the total, the path and the
\* runtime of one pair (no runtime when that pair reported none).
C27_BestsOfOnePair ==
    (op = "query_multi" /\ LengthsOk /\ supports = Some(FALSE)) =>
       /\ \/ best_distance = Inf /\ best_path = None /\ best_runtime = Some(0)
          \/ \E k \in 1..Len(hist) :
                BestIsPair(k, best_distance, best_path, best_runtime)
       /\ (pc = "done" /\ ret[1].success) =>
             \E k \in 1..Len(hist) :
                /\ ret[1].distance # None
                /\ BestIsPair(k, ret[1].distance[1], ret[1].path, ret[1].runtime_ms)

\* the search returned the route of a pair that reported no runtime, found
\* after a pair that reported one
C27_Witness ==
    /\ FallbackDone /\ ret[1].success
    /\ ret[1].runtime_ms = None
    /\ \E k, l \in 1..Len(hist) :
          /\ l < k
          /\ hist[l].result.success /\ hist[l].result.runtime_ms # None
          /\ IsFinite(Total(l))
          /\ BestIsPair(k, ret[1].distance[1], ret[1].path, ret[1].runtime_ms)

\* the last request went to the endpoint
Asked(endpoint) == request # None /\ request[1].endpoint = endpoint

\* C26: every /route request is answered with status 200 and a RouteResponse
\* that carries success; an unknown dataset, an invalid search_mode, a failed
\* engine lookup, an exception of the engine call and an engine result
\* without success all give success False with an error.
C26_RouteAlwaysAnswers ==
    Asked("route") =>
       LET r == request[1] IN
       /\ response[1].status_code = 200
       /\ response[1].body # None
       /\ response[1].body[1].success \in BOOLEAN
       /\ (\/ ~r.registered
           \/ r.search_mode \notin {"knn", "radius"}
           \/ "exception" \in DOMAIN r.lookup
           \/ "exception" \in DOMAIN r.call
           \/ ~r.call.success)
            => (~response[1].body[1].success /\ response[1].body[1].error # None)

\* a request for a registered dataset in knn mode found its engine, the call
\* of compute_route_latlon raised, and the answer is a 200 with success False
C26_Witness ==
    /\ Asked("route")
    /\ request[1].registered /\ request[1].search_mode = "knn"
    /\ request[1].lookup = [engine |-> "CHQueryEngine"]
    /\ request[1].call = Raise("AttributeError")
    /\ response[1].status_code = 200
    /\ ~response[1].body[1].success

\* C28 (as stated): /nearest-edge answers 404 "Dataset not found" for an
\* unregistered dataset, 404 "No nearby edges found" when the index returns
\* no edge, and 500 only when the index could not be had.
C28_NearestEdgeStatus ==
    Asked("nearest-edge") =>
       LET r == request[1]
           built == r.file.kind = "csv" /\ {"id", "geometry"} \subseteq r.file.columns
       IN /\ ~r.registered =>
               (response[1].status_code = 404
                   /\ response[1].detail = <<"Dataset not found">>)
          /\ (r.registered /\ built /\ r.ids = <<>>) =>
               (response[1].status_code = 404
                   /\ response[1].detail = <<"No nearby edges found">>)
          /\ response[1].status_code = 500 => (r.registered /\ ~built)

\* C29 (as stated): parse_cpp_output returns a path exactly when _parse_output
\* returns a success, then with the same path, distance and runtime, and it
\* returns (None, None, None) exactly when _parse_output returns a failure.
C29_ParsersAgree ==
    Done("parse") =>
       LET c == parse_cpp_output(payload)
           r == ret[1]
       IN /\ (c.path # None) <=> r.success
          /\ r.success => c = CppTuple(r.path, r.distance, r.runtime_ms)
          /\ (c = CppTuple(None, None, None)) <=> ~r.success

====
